---- MODULE Spec2Model ----
(***************************************************************************)
(* Model of the SSE ingestion core of parallel-u:                          *)
(*   MinoClient.run_automation  (src/src/parallel_u/clients/mino_client.py)*)
(*   MinoClient.run_multiple                                               *)
(* and of its session store:                                               *)
(*   SessionStore  (src/src/parallel_u/services/session_store.py)          *)
(* A stream line is the raw text httpx hands to the loop; the model        *)
(* performs the same tests on it as the code (blank test, "data:" prefix,  *)
(* slice, strip, json.loads, dict lookups).                                *)
(***************************************************************************)
EXTENDS Integers, Sequences, FiniteSets, TLC

VARIABLES
    url,        \* the url argument of the current run_automation call
    result,     \* the result dict of the current run_automation call
    pc,         \* position of run_automation: idle / connect / stream / returned / raised
    exc,        \* class of the exception raised inside the try block of the run ("" if none)
    consumed,   \* the lines aiter_lines() has delivered to the current run, in order
    tasks,      \* the tasks argument of run_multiple
    results,    \* the results list of run_multiple
    idx,        \* how many tasks the for loop of run_multiple has taken
    mpc,        \* position of run_multiple: direct / loop / awaiting / returned / raised
    status_code,\* response.status_code of the current run (0 while no response has arrived)
    elapsed,    \* seconds since the current run opened its request
    idle,       \* seconds since the transport last received data from the provider
    sessions,   \* SessionStore._sessions: session id -> reference to a Session object
    heap,       \* the Session objects ever constructed, indexed by reference
    call,       \* per thread: the SessionStore method it is inside, and its locals
    created,    \* the ids create has returned, in order
    issued,     \* the add_chat_message calls that found their session, in the order of their lookup (line 55)
    done,       \* the add_chat_message calls that returned True, in the order of their append
    deletes,    \* the ids of the delete calls that found their session, in the order of their test (line 63)
    returned,   \* the SessionStore call that ended last: method, session id, outcome
    lists,      \* the list objects the callers of create built and passed in, indexed by reference
    reqs,       \* the HTTP requests received by the app, in order of arrival
    loop,       \* the request whose handler occupies the event loop thread in a blocking call (0 if none)
    served,     \* the requests that got their response, in the order of the responses
    prefs,      \* MemoryStore._prefs: user id -> PreferencesOut record
    lock,       \* MemoryStore._lock: the thread that holds it ("" if free)
    mcall,      \* per thread: the MemoryStore method it is inside, and its locals
    writes,     \* the records assigned into _prefs, in the order of the assignments (line 28)
    got,        \* the get_preferences call that returned last: thread, user id, value
    now         \* datetime.utcnow(), as the number of records built so far

vars == <<url, result, pc, exc, consumed, tasks, results, idx, mpc,
          status_code, elapsed, idle,
          sessions, heap, call, created, issued, done, deletes, returned, lists,
          reqs, loop, served,
          prefs, lock, mcall, writes, got, now>>

(* ------------------------------ bounds --------------------------------- *)

\* lines read from one stream when run_automation is called directly
MaxLines == 3
\* tasks handed to run_multiple
MaxTasks == 2
\* lines read from one stream inside run_multiple
MaxMultiLines == 1
\* lines read from one stream when the clock is modelled
MaxTimedLines == 3
\* seconds of a run the clock is followed for
MaxElapsed == 600
\* calls of SessionStore.create
MaxCreates == 2
\* calls of SessionStore.add_chat_message
MaxAdds == 2
\* calls of SessionStore.delete
MaxDeletes == 1
\* HTTP requests the app receives
MaxRequests == 3
\* calls of MemoryStore.upsert_preferences
MaxUpserts == 3

(* --------------------- decoded JSON / Python values -------------------- *)
\* A Python value is a tagged record: jt is its Python type, v its payload
\* (the text of a scalar, the key->value record of a dict).

PyStr(s)  == [jt |-> "str",  v |-> s]
PyInt(s)  == [jt |-> "int",  v |-> s]
PyList(s) == [jt |-> "list", v |-> s]
PyDict(d) == [jt |-> "dict", v |-> d]
PyNone    == [jt |-> "NoneType", v |-> "None"]
\* a key that is not in a dict
KeyMissing == [jt |-> "<no key>", v |-> ""]
\* json.loads raised json.JSONDecodeError
JSONDecodeError == [jt |-> "JSONDecodeError", v |-> ""]

\* dict.get(key, default)
Get(d, key, default) == IF key \in DOMAIN d THEN d[key] ELSE default

\* x == "literal" for a Python value x of any type
PyEqStr(x, s) == x.jt = "str" /\ x.v = s

(* --------------------------- the stream lines -------------------------- *)
\* The text after the "data:" marker of each line a provider may send.

BodyNotJson    == "<html>"
BodyArray      == "[]"
BodyStarted    == "{\"type\": \"STARTED\", \"runId\": \"r1\", \"timestamp\": \"t0\"}"
BodyProgress   == "{\"type\": \"PROGRESS\", \"purpose\": \"click\"}"
BodyHeartbeat  == "{\"type\": \"HEARTBEAT\"}"
BodyNoType     == "{\"timestamp\": \"t1\"}"
BodyDoneObj    == "{\"type\": \"COMPLETE\", \"status\": \"COMPLETED\", \"resultJson\": {\"k\": \"v\"}}"
BodyDoneText   == "{\"type\": \"COMPLETE\", \"status\": \"COMPLETED\", \"resultJson\": \"text\"}"
BodyFailed     == "{\"type\": \"COMPLETE\", \"status\": \"FAILED\"}"
BodyNullStatus == "{\"type\": \"COMPLETE\", \"status\": null}"
BodyNoStatus   == "{\"type\": \"COMPLETE\"}"
BodyStartedNoId == "{\"type\": \"STARTED\"}"
BodyStreamingUrl == "{\"type\": \"STREAMING_URL\", \"streamingUrl\": \"https://live.test/1\"}"

LineBlank      == ""
LineComment    == ": keep-alive"
LineDataEmpty  == "data:   "
LineNotJson    == "data: " \o BodyNotJson
LineJsonArray  == "data: " \o BodyArray
LineStarted    == "data: " \o BodyStarted
LineProgress   == "data: " \o BodyProgress \o " "
LineHeartbeat  == "data:" \o BodyHeartbeat
LineNoType     == "data: " \o BodyNoType
LineDoneObj    == "data: " \o BodyDoneObj
LineDoneText   == "data: " \o BodyDoneText
LineFailed     == "data: " \o BodyFailed
LineNullStatus == "data: " \o BodyNullStatus
LineNoStatus   == "data: " \o BodyNoStatus
LineStartedNoId == "data: " \o BodyStartedNoId
LineStreamingUrl == "data: " \o BodyStreamingUrl

\* the lines a provider may deliver to a direct run
Lines ==
    { LineBlank, LineComment, LineDataEmpty, LineNotJson, LineJsonArray,
      LineStarted, LineProgress, LineHeartbeat, LineNoType,
      LineDoneObj, LineDoneText, LineFailed, LineNullStatus, LineNoStatus,
      LineStreamingUrl }

\* the lines a provider may deliver to a run started by run_multiple
MultiLines == { LineJsonArray, LineDoneObj, LineFailed }

(* ---------------------- text and JSON primitives ----------------------- *)

\* str.startswith(prefix)
StartsWith(s, prefix) ==
    Len(s) >= Len(prefix) /\ SubSeq(s, 1, Len(prefix)) = prefix

\* the characters str.strip() removes
Whitespace == {" ", "\t", "\n", "\r"}

RECURSIVE LStrip(_)
LStrip(s) ==
    IF Len(s) > 0 /\ SubSeq(s, 1, 1) \in Whitespace
    THEN LStrip(SubSeq(s, 2, Len(s)))
    ELSE s

RECURSIVE RStrip(_)
RStrip(s) ==
    IF Len(s) > 0 /\ SubSeq(s, Len(s), Len(s)) \in Whitespace
    THEN RStrip(SubSeq(s, 1, Len(s) - 1))
    ELSE s

\* str.strip()
Strip(s) == RStrip(LStrip(s))

\* line[5:]
AfterMarker(line) == SubSeq(line, 6, Len(line))

\* json.loads(text): the decoded value, or JSONDecodeError
JsonLoads(text) ==
    CASE text = BodyArray      -> PyList("[]")
      [] text = BodyStarted    -> PyDict([type |-> PyStr("STARTED"), runId |-> PyStr("r1"),
                                          timestamp |-> PyStr("t0")])
      [] text = BodyProgress   -> PyDict([type |-> PyStr("PROGRESS"), purpose |-> PyStr("click")])
      [] text = BodyHeartbeat  -> PyDict([type |-> PyStr("HEARTBEAT")])
      [] text = BodyNoType     -> PyDict([timestamp |-> PyStr("t1")])
      [] text = BodyDoneObj    -> PyDict([type |-> PyStr("COMPLETE"), status |-> PyStr("COMPLETED"),
                                          resultJson |-> PyDict([k |-> PyStr("v")])])
      [] text = BodyDoneText   -> PyDict([type |-> PyStr("COMPLETE"), status |-> PyStr("COMPLETED"),
                                          resultJson |-> PyStr("text")])
      [] text = BodyFailed     -> PyDict([type |-> PyStr("COMPLETE"), status |-> PyStr("FAILED")])
      [] text = BodyNullStatus -> PyDict([type |-> PyStr("COMPLETE"), status |-> PyNone])
      [] text = BodyNoStatus   -> PyDict([type |-> PyStr("COMPLETE")])
      [] text = BodyStartedNoId -> PyDict([type |-> PyStr("STARTED")])
      [] text = BodyStreamingUrl -> PyDict([type |-> PyStr("STREAMING_URL"),
                                            streamingUrl |-> PyStr("https://live.test/1")])
      [] OTHER                 -> JSONDecodeError

\* str.lower() on the status strings a COMPLETE event may carry
Lower(s) ==
    CASE s = "COMPLETED" -> "completed"
      [] s = "FAILED"    -> "failed"
      [] s = "CANCELLED" -> "cancelled"
      [] s = ""          -> ""

\* json.dumps(d, indent=2) for a dict d
JsonDumpsIndent2(d) ==
    CASE DOMAIN d = {}    -> "{}"
      [] DOMAIN d = {"k"} -> "{\n  \"k\": \"" \o d.k.v \o "\"\n}"

\* str(x) for a non-dict Python value x (the text of a str or an int, "None", "[]")
Str(x) == x.v

\* the text an f-string gives for the bytes response.aread() returns
BytesRepr(b) == "b'" \o b \o "'"

\* the dict run_automation starts from
InitialResult(u) ==
    [ website |-> u,
      content |-> "",
      status  |-> "pending",
      events  |-> << >>,
      error   |-> KeyMissing,
      run_id  |-> KeyMissing ]

(* ------------------- run_automation: folding one line ------------------ *)
\* The outcome of one pass through the loop body: the result dict after it
\* and the class of the exception it raised ("" if none).

Continue(r)   == [result |-> r, raised |-> ""]
Raise(r, cls) == [result |-> r, raised |-> cls]

\* OnComplete as it would be if the status were stored without lower()
OnCompleteKeepsCase(r, event) ==
    LET status == Get(event, "status", PyStr("")) IN
    IF status.jt # "str"
    THEN Raise(r, "AttributeError")
    ELSE LET r1 == [r EXCEPT !.status = status.v] IN
         IF status.v = "COMPLETED"
         THEN LET result_json == Get(event, "resultJson", PyDict(<< >>)) IN
              Continue([r1 EXCEPT !.content =
                            IF result_json.jt = "dict"
                            THEN JsonDumpsIndent2(result_json.v)
                            ELSE Str(result_json)])
         ELSE Continue([r1 EXCEPT !.error = PyStr("Automation " \o status.v)])

\* the COMPLETE branch
OnComplete(r, event) ==
    LET status == Get(event, "status", PyStr("")) IN
    IF status.jt # "str"
    THEN Raise(r, "AttributeError")                 \* status.lower()
    ELSE LET r1 == [r EXCEPT !.status = Lower(status.v)] IN
         IF status.v = "COMPLETED"
         THEN LET result_json == Get(event, "resultJson", PyDict(<< >>)) IN
              Continue([r1 EXCEPT !.content =
                            IF result_json.jt = "dict"
                            THEN JsonDumpsIndent2(result_json.v)
                            ELSE Str(result_json)])
         ELSE Continue([r1 EXCEPT !.error = PyStr("Automation " \o status.v)])

\* the STARTED branch
OnStarted(r, event) ==
    Continue([r EXCEPT !.run_id = Get(event, "runId", PyNone),
                       !.status = "running"])

\* OnEvent as it would be if a PROGRESS event marked the run as running
OnEventProgressRuns(r, event) ==
    LET event_type == Get(event, "type", PyStr(""))
        r1 == [r EXCEPT !.events =
                   Append(@, [type      |-> event_type,
                              timestamp |-> Get(event, "timestamp", PyNone)])]
    IN  CASE PyEqStr(event_type, "STARTED")   -> OnStarted(r1, event)
          [] PyEqStr(event_type, "PROGRESS")  -> Continue([r1 EXCEPT !.status = "running"])
          [] PyEqStr(event_type, "COMPLETE")  -> OnComplete(r1, event)
          [] PyEqStr(event_type, "HEARTBEAT") -> Continue(r1)
          [] OTHER                            -> Continue(r1)

\* OnEvent as it would be if the address an event carries replaced website
OnEventTakesUrl(r, event) ==
    LET event_type == Get(event, "type", PyStr(""))
        r0 == IF "streamingUrl" \in DOMAIN event
              THEN [r EXCEPT !.website = event.streamingUrl.v]
              ELSE r
        r1 == [r0 EXCEPT !.events =
                   Append(@, [type      |-> event_type,
                              timestamp |-> Get(event, "timestamp", PyNone)])]
    IN  CASE PyEqStr(event_type, "STARTED")   -> OnStarted(r1, event)
          [] PyEqStr(event_type, "PROGRESS")  -> Continue(r1)
          [] PyEqStr(event_type, "COMPLETE")  -> OnComplete(r1, event)
          [] PyEqStr(event_type, "HEARTBEAT") -> Continue(r1)
          [] OTHER                            -> Continue(r1)

\* the body of the try block for a decoded event that is a dict
OnEvent(r, event) ==
    LET event_type == Get(event, "type", PyStr(""))
        r1 == [r EXCEPT !.events =
                   Append(@, [type      |-> event_type,
                              timestamp |-> Get(event, "timestamp", PyNone)])]
    IN  CASE PyEqStr(event_type, "STARTED")   -> OnStarted(r1, event)
          [] PyEqStr(event_type, "PROGRESS")  -> Continue(r1)
          [] PyEqStr(event_type, "COMPLETE")  -> OnComplete(r1, event)
          [] PyEqStr(event_type, "HEARTBEAT") -> Continue(r1)
          [] OTHER                            -> Continue(r1)

\* FoldLine as it would be with the `except json.JSONDecodeError` clause missing
FoldLineRaisesOnBadJson(r, line) ==
    IF line = "" THEN Continue(r)
    ELSE IF ~StartsWith(line, "data:") THEN Continue(r)
    ELSE LET data_str == Strip(AfterMarker(line)) IN
         IF data_str = "" THEN Continue(r)
         ELSE LET event == JsonLoads(data_str) IN
              IF event.jt = "JSONDecodeError" THEN Raise(r, "JSONDecodeError")
              ELSE IF event.jt # "dict"
                   THEN Raise(r, "AttributeError")
                   ELSE OnEvent(r, event.v)

\* one iteration of `async for line in response.aiter_lines()`
FoldLine(r, line) ==
    IF line = "" THEN Continue(r)
    ELSE IF ~StartsWith(line, "data:") THEN Continue(r)
    ELSE LET data_str == Strip(AfterMarker(line)) IN
         IF data_str = "" THEN Continue(r)
         ELSE LET event == JsonLoads(data_str) IN
              IF event.jt = "JSONDecodeError" THEN Continue(r)
              ELSE IF event.jt # "dict"
                   THEN Raise(r, "AttributeError")  \* event.get on a non-dict
                   ELSE OnEvent(r, event.v)

(* ---------------------- transport faults (httpx) ----------------------- *)
\* str(e) of the httpx exceptions the transport can raise

FaultText(cls) ==
    CASE cls = "ConnectError"        -> "All connection attempts failed"
      [] cls = "ConnectTimeout"      -> ""
      [] cls = "ReadTimeout"         -> ""
      [] cls = "RemoteProtocolError" -> "peer closed connection without sending complete message body"

ConnectFaults == {"ConnectError", "ConnectTimeout"}
ReadFaults    == {"ReadTimeout", "RemoteProtocolError"}

\* isinstance(e, httpx.TimeoutException)
IsTimeoutException(cls) == cls \in {"ConnectTimeout", "ReadTimeout"}
\* isinstance(e, httpx.RequestError); TimeoutException is one of its subclasses
IsRequestError(cls) ==
    cls \in {"ConnectError", "ConnectTimeout", "ReadTimeout", "RemoteProtocolError"}

\* OnException as it would be with the `except httpx.RequestError` clause missing
OnExceptionTimeoutOnly(r, cls) ==
    IF IsTimeoutException(cls)
    THEN Continue([r EXCEPT !.status = "error",
                            !.error  = PyStr("Request timed out after 300 seconds")])
    ELSE Raise(r, cls)

\* OnException as it would be if the except clauses started from a fresh result
OnExceptionClearsContent(r, cls) ==
    IF IsTimeoutException(cls)
    THEN Continue([InitialResult(r.website) EXCEPT
                       !.status = "error",
                       !.error  = PyStr("Request timed out after 300 seconds")])
    ELSE IF IsRequestError(cls)
    THEN Continue([InitialResult(r.website) EXCEPT
                       !.status = "error",
                       !.error  = PyStr("Request failed: " \o FaultText(cls))])
    ELSE Raise(r, cls)

\* the except clauses of run_automation, tried in order
OnException(r, cls) ==
    IF IsTimeoutException(cls)
    THEN Continue([r EXCEPT !.status = "error",
                            !.error  = PyStr("Request timed out after 300 seconds")])
    ELSE IF IsRequestError(cls)
    THEN Continue([r EXCEPT !.status = "error",
                            !.error  = PyStr("Request failed: " \o FaultText(cls))])
    ELSE Raise(r, cls)

(* ------------------------ run_automation: steps ------------------------ *)

Urls == {"https://a.test", "https://b.test"}

\* status codes of the initial response
StatusCodes == {200, 204, 401, 500}
\* what response.aread() returns for a non-200 response
ErrorBodies == {"", "Bad Gateway"}

runVars   == <<url, result, pc, exc, consumed, status_code>>
multiVars == <<tasks, results, idx, mpc>>
clockVars == <<elapsed, idle>>
storeVars == <<sessions, heap, call, created, issued, done, deletes, returned, lists>>
apiVars   == <<reqs, loop, served>>
memVars   == <<prefs, lock, mcall, writes, got, now>>

\* leave the try block with exception cls: the except clauses decide whether
\* run_automation returns the result or the exception propagates
Leave(r, cls) ==
    LET h == OnException(r, cls) IN
    /\ result' = h.result
    /\ pc'     = IF h.raised = "" THEN "returned" ELSE "raised"
    /\ exc'    = cls

\* client.stream(...) fails before a response arrives
ConnectFault ==
    /\ pc = "connect"
    /\ \E cls \in ConnectFaults : Leave(result, cls)
    /\ UNCHANGED <<url, consumed, status_code>>
    /\ UNCHANGED multiVars

\* Unauthorized as it would be with the 401 branch missing: the response falls
\* into the `!= 200` branch
UnauthorizedAsHttpError ==
    /\ pc = "connect"
    /\ \E code \in StatusCodes : code = 401 /\ status_code' = code
    /\ \E body \in ErrorBodies :
         result' = [result EXCEPT !.status = "error",
                                  !.error  = PyStr("HTTP 401: " \o BytesRepr(body))]
    /\ pc' = "returned"
    /\ UNCHANGED <<url, exc, consumed>>
    /\ UNCHANGED multiVars

\* the response arrives with status 401
Unauthorized ==
    /\ pc = "connect"
    /\ \E code \in StatusCodes : code = 401 /\ status_code' = code
    /\ result' = [result EXCEPT !.status = "error",
                                !.error  = PyStr("Unauthorized: Invalid or missing API key")]
    /\ pc' = "returned"
    /\ UNCHANGED <<url, exc, consumed>>
    /\ UNCHANGED multiVars

\* the response arrives with another status that is not 200
HttpError ==
    /\ pc = "connect"
    /\ \E code \in StatusCodes :
         /\ code # 401
         /\ code # 200
         /\ status_code' = code
         /\ LET r1 == [result EXCEPT !.status = "error"] IN
            \/ \E body \in ErrorBodies :
                 /\ result' = [r1 EXCEPT !.error =
                                  PyStr("HTTP " \o ToString(code) \o ": " \o BytesRepr(body))]
                 /\ pc' = "returned"
                 /\ exc' = exc
            \/ \E cls \in ReadFaults : Leave(r1, cls)      \* response.aread() fails
    /\ UNCHANGED <<url, consumed>>
    /\ UNCHANGED multiVars

\* StreamOpened as it would be if every 2xx response were read as a stream
StreamOpenedOnAny2xx ==
    /\ pc = "connect"
    /\ \E code \in StatusCodes : code \in 200..299 /\ status_code' = code
    /\ pc' = "stream"
    /\ UNCHANGED <<url, result, exc, consumed>>
    /\ UNCHANGED multiVars

\* the response arrives with status 200: the loop over the lines begins
StreamOpened ==
    /\ pc = "connect"
    /\ \E code \in StatusCodes : code = 200 /\ status_code' = code
    /\ pc' = "stream"
    /\ UNCHANGED <<url, result, exc, consumed>>
    /\ UNCHANGED multiVars

\* aiter_lines() delivers one line and the loop body folds it
NextLine(lines, bound) ==
    /\ pc = "stream"
    /\ Len(consumed) < bound
    /\ \E line \in lines :
         LET o == FoldLine(result, line) IN
         /\ consumed' = Append(consumed, line)
         /\ IF o.raised = ""
            THEN /\ result' = o.result
                 /\ UNCHANGED <<pc, exc>>
            ELSE Leave(o.result, o.raised)
    /\ UNCHANGED <<url, status_code>>
    /\ UNCHANGED multiVars

\* aiter_lines() is exhausted: the with blocks exit and the result is returned
StreamEnd ==
    /\ pc = "stream"
    /\ pc' = "returned"
    /\ UNCHANGED <<url, result, exc, consumed, status_code>>
    /\ UNCHANGED multiVars

\* waiting for the next line fails (read timeout, connection dropped)
ReadFault ==
    /\ pc = "stream"
    /\ \E cls \in ReadFaults : Leave(result, cls)
    /\ UNCHANGED <<url, consumed, status_code>>
    /\ UNCHANGED multiVars

\* the steps of one run_automation call
RunStep(lines, bound) ==
    \/ ConnectFault
    \/ Unauthorized
    \/ HttpError
    \/ StreamOpened
    \/ NextLine(lines, bound)
    \/ StreamEnd
    \/ ReadFault

(* ------------------ a direct call of run_automation -------------------- *)

\* the value of `result` while no call is in progress
NoCall == InitialResult("")

\* the threads that call into the one SessionStore of the process
Threads == {"t1", "t2"}

\* a thread that is outside every SessionStore method
Idle == [op |-> "idle", session_id |-> "", session |-> 0,
         turn |-> [role |-> "", content |-> ""]]

\* how a SessionStore call ended: value is what it returned ("True", "False",
\* "None", "Session", or the id for create) or the exception it raised;
\* session is the Session object handed back by get (0 otherwise)
Return(op, session_id, value, session) ==
    [op |-> op, session_id |-> session_id, value |-> value, session |-> session]
NoReturn == Return("", "", "", 0)

\* the app has just started: no request yet, the event loop is free
NoRequests ==
    /\ reqs = << >>
    /\ loop = 0
    /\ served = << >>

\* a PreferencesOut record
PreferencesOut(user_id, topics, depth, time_budget_min, updated_at) ==
    [user_id |-> user_id, topics |-> topics, depth |-> depth,
     time_budget_min |-> time_budget_min, updated_at |-> updated_at]

\* None, where a PreferencesOut record may stand
NoPreferences == [user_id |-> "", topics |-> "None", depth |-> "",
                  time_budget_min |-> 0, updated_at |-> 0]

\* a thread that is outside every MemoryStore method
MemoryIdle == [op |-> "idle", pc |-> "", user_id |-> "", rec |-> NoPreferences]

\* MemoryStore.__init__: no record, the lock free
MemoryEmpty ==
    /\ prefs = << >>
    /\ lock = ""
    /\ mcall = [t \in Threads |-> MemoryIdle]
    /\ writes = << >>
    /\ got = [thread |-> "", user_id |-> "", value |-> NoPreferences]
    /\ now = 0

\* SessionStore.__init__: no session, no call in progress
StoreEmpty ==
    /\ sessions = << >>
    /\ heap = << >>
    /\ call = [t \in Threads |-> Idle]
    /\ created = << >>
    /\ issued = << >>
    /\ done = << >>
    /\ deletes = << >>
    /\ returned = NoReturn
    /\ lists = << >>

Init ==
    /\ StoreEmpty
    /\ NoRequests
    /\ MemoryEmpty
    /\ url \in Urls
    /\ result = InitialResult(url)
    /\ pc = "connect"
    /\ exc = ""
    /\ consumed = << >>
    /\ status_code = 0
    /\ tasks = << >>
    /\ results = << >>
    /\ idx = 0
    /\ mpc = "direct"
    /\ elapsed = 0
    /\ idle = 0

\* a step taken while the clock is not followed (a timeout may strike at any step)
Untimed(A) ==
    A /\ UNCHANGED clockVars /\ UNCHANGED storeVars /\ UNCHANGED apiVars /\ UNCHANGED memVars

Next ==
    \/ Untimed(ConnectFault)
    \/ Untimed(Unauthorized)
    \/ Untimed(HttpError)
    \/ Untimed(StreamOpened)
    \/ Untimed(NextLine(Lines, MaxLines))
    \/ Untimed(StreamEnd)
    \/ Untimed(ReadFault)

Spec == Init /\ [][Next]_vars

(* ------- a direct call of run_automation, STARTED events repeated ------- *)

\* the lines a provider may deliver when STARTED events with and without a
\* run identifier are followed
StartedLines == { LineStarted, LineStartedNoId, LineProgress, LineDoneObj }

NextStarted ==
    \/ Untimed(ConnectFault)
    \/ Untimed(Unauthorized)
    \/ Untimed(HttpError)
    \/ Untimed(StreamOpened)
    \/ Untimed(NextLine(StartedLines, MaxLines))
    \/ Untimed(StreamEnd)
    \/ Untimed(ReadFault)

SpecStarted == Init /\ [][NextStarted]_vars

(* ------------- a direct call of run_automation, with a clock ----------- *)
\* httpx.AsyncClient(timeout=300.0): httpx applies the value to each transport
\* operation on its own (connect, read of the next chunk), not to the request as
\* a whole.  idle counts the seconds the pending operation has waited.

Timeout == 300

\* the amounts of time that may pass between two steps
TickSteps == {100, 200}

\* the lines a provider may deliver while the clock is followed
TimedLines == { LineStarted, LineHeartbeat, LineProgress, LineDoneObj }

\* time passes while the run waits for the response or for the next line;
\* the pending operation cannot wait longer than Timeout
Tick ==
    /\ pc \in {"connect", "stream"}
    /\ \E d \in TickSteps :
         /\ idle + d <= Timeout
         /\ elapsed + d <= MaxElapsed
         /\ idle' = idle + d
         /\ elapsed' = elapsed + d
    /\ UNCHANGED runVars
    /\ UNCHANGED multiVars
    /\ UNCHANGED storeVars
    /\ UNCHANGED apiVars
    /\ UNCHANGED memVars

\* a step taken while the clock is followed: a timeout exception strikes only
\* when the pending operation has waited Timeout seconds, and receiving the
\* response head or a line restarts the wait
Timed(A) ==
    /\ A
    /\ IsTimeoutException(exc') => (idle = Timeout /\ status_code' = status_code)
    /\ idle' = IF status_code' # status_code \/ consumed' # consumed THEN 0 ELSE idle
    /\ elapsed' = elapsed
    /\ UNCHANGED storeVars
    /\ UNCHANGED apiVars
    /\ UNCHANGED memVars

NextTimed ==
    \/ Tick
    \/ Timed(ConnectFault)
    \/ Timed(Unauthorized)
    \/ Timed(HttpError)
    \/ Timed(StreamOpened)
    \/ Timed(NextLine(TimedLines, MaxTimedLines))
    \/ Timed(StreamEnd)
    \/ Timed(ReadFault)

SpecTimed == Init /\ [][NextTimed]_vars

(* ----------------------------- run_multiple ---------------------------- *)

Instructions == {"x"}
Task(w, g) == [website |-> w, instructions |-> g]
AllTasks == {Task(w, g) : w \in Urls, g \in Instructions}

\* the task lists of length 0 .. MaxTasks
TaskLists == UNION {[1..n -> AllTasks] : n \in 0..MaxTasks}

\* `for task in tasks`: the next task is taken and run_automation is called
\* with url=task["website"]; the call runs up to its first await
RunMultipleCall ==
    /\ mpc = "loop"
    /\ idx < Len(tasks)
    /\ LET task == tasks[idx + 1] IN
       /\ url' = task.website
       /\ result' = InitialResult(task.website)
    /\ idx' = idx + 1
    /\ pc' = "connect"
    /\ exc' = ""
    /\ consumed' = << >>
    /\ status_code' = 0
    /\ mpc' = "awaiting"
    /\ UNCHANGED <<tasks, results>>

\* RunMultipleAppend as it would be if results of failed runs were dropped
RunMultipleAppendSkipsErrors ==
    /\ mpc = "awaiting"
    /\ pc = "returned"
    /\ results' = IF result.status = "error" THEN results ELSE Append(results, result)
    /\ pc' = "idle"
    /\ result' = NoCall
    /\ mpc' = "loop"
    /\ UNCHANGED <<url, exc, consumed, status_code, tasks, idx>>

\* the awaited run_automation returned: results.append(result)
RunMultipleAppend ==
    /\ mpc = "awaiting"
    /\ pc = "returned"
    /\ results' = Append(results, result)
    /\ pc' = "idle"
    /\ result' = NoCall
    /\ mpc' = "loop"
    /\ UNCHANGED <<url, exc, consumed, status_code, tasks, idx>>

\* the awaited run_automation raised: nothing in run_multiple catches it
RunMultiplePropagate ==
    /\ mpc = "awaiting"
    /\ pc = "raised"
    /\ mpc' = "raised"
    /\ pc' = "idle"
    /\ UNCHANGED <<url, result, exc, consumed, status_code, tasks, results, idx>>

\* the for loop is exhausted: return results
RunMultipleReturn ==
    /\ mpc = "loop"
    /\ idx = Len(tasks)
    /\ mpc' = "returned"
    /\ UNCHANGED <<url, result, pc, exc, consumed, status_code, tasks, results, idx>>

InitMulti ==
    /\ StoreEmpty
    /\ NoRequests
    /\ MemoryEmpty
    /\ tasks \in TaskLists
    /\ results = << >>
    /\ idx = 0
    /\ mpc = "loop"
    /\ url = ""
    /\ result = NoCall
    /\ pc = "idle"
    /\ exc = ""
    /\ consumed = << >>
    /\ status_code = 0
    /\ elapsed = 0
    /\ idle = 0

NextMulti ==
    \/ Untimed(RunMultipleCall)
    \/ Untimed(ConnectFault)
    \/ Untimed(Unauthorized)
    \/ Untimed(HttpError)
    \/ Untimed(StreamOpened)
    \/ Untimed(NextLine(MultiLines, MaxMultiLines))
    \/ Untimed(StreamEnd)
    \/ Untimed(ReadFault)
    \/ Untimed(RunMultipleAppend)
    \/ Untimed(RunMultiplePropagate)
    \/ Untimed(RunMultipleReturn)

SpecMulti == InitMulti /\ [][NextMulti]_vars

(* ----------------------------- SessionStore --------------------------- *)
\* The store holds no lock.  Threads of one process call its methods; a thread
\* may be preempted between two lines of a method, while one dict or list
\* operation (dict.get, dict store, del, list.append) is indivisible.

Ids   == {"s1", "s2"}
\* the user a thread serves
UserOf(t) == IF t = "t1" THEN "u1" ELSE "u2"
Turns == { [role |-> "user",      content |-> "hi"],
           [role |-> "assistant", content |-> "hello"] }

Range(seq) == { seq[i] : i \in 1..Len(seq) }

\* an id generator that only avoids the ids of the live sessions
Uuid4AvoidsLiveOnly == Ids \ DOMAIN sessions

\* uuid.uuid4(): 122 random bits.  The draw is taken to be a value that was
\* never drawn before (a repeated draw has probability about 2^-122).
Uuid4 == Ids \ Range(created)

\* Session(session_id=..., user_id=..., topics=..., browsing_results=...):
\* topics and browsing_results hold the list objects the caller passed (their
\* references, no copy is made); chat_history comes from
\* field(default_factory=list), a new empty list for every object
Session(session_id, user_id, topics, browsing_results) ==
    [session_id |-> session_id, user_id |-> user_id,
     topics |-> topics, browsing_results |-> browsing_results,
     chat_history |-> << >>]

\* the topics a request names
Topics == <<"ai">>

\* d[k] = v on a dict
DictStore(d, k, v) == [x \in DOMAIN d \cup {k} |-> IF x = k THEN v ELSE d[x]]
\* del d[k] replaced by d.clear()
DictDelClears(d, k) == << >>
\* del d[k]
DictDel(d, k) == [x \in DOMAIN d \ {k} |-> d[x]]
\* d.get(k) replaced by a lookup that falls back on some other entry
DictGetFallsBack(d, k) ==
    IF k \in DOMAIN d THEN d[k]
    ELSE IF DOMAIN d = {} THEN 0 ELSE d[CHOOSE x \in DOMAIN d : TRUE]
\* d.get(k), with 0 standing for None
DictGet(d, k) == IF k \in DOMAIN d THEN d[k] ELSE 0

\* list.append replaced by an assignment of a one-element list
AppendTurnReplaces(history, turn) == << turn >>
\* list.append replaced by an insertion at the front
AppendTurnInFront(history, turn) == << turn >> \o history
\* session.chat_history.append({"role": role, "content": content})
AppendTurn(history, turn) == Append(history, turn)

\* SessionStore.get(session_id): the Session object, or 0 for None
get(session_id) ==
    IF DictGet(sessions, session_id) = 0 THEN 0
    ELSE heap[DictGet(sessions, session_id)]

clientVars == <<runVars, multiVars, clockVars>>

\* the body of create, lines 38-47, for a caller that built the list objects
\* topics_list and results_list and passes them in
CreateSession(user_id, topics_list, results_list) ==
    \E session_id \in Uuid4 :
        LET topics           == Len(lists) + 1
            browsing_results == Len(lists) + 2
        IN  /\ lists' = lists \o << topics_list, results_list >>
            /\ heap' = Append(heap, Session(session_id, user_id,
                                            topics, browsing_results))
            /\ sessions' = DictStore(sessions, session_id, Len(heap) + 1)
            /\ created' = Append(created, session_id)
            /\ returned' = Return("create", session_id, session_id, 0)

\* SessionStore.create: draws an id, constructs the Session, stores it under
\* the id (no test whether the id is already a key) and returns the id
Create(t) ==
    /\ call[t].op = "idle"
    /\ Len(created) < MaxCreates
    /\ CreateSession(UserOf(t), Topics, << >>)
    /\ UNCHANGED <<call, issued, done, deletes>>
    /\ UNCHANGED clientVars
    /\ UNCHANGED apiVars
    /\ UNCHANGED memVars

\* add_chat_message, line 55-56 and 59: the lookup; an unknown id returns False
AddLookup(t) ==
    /\ call[t].op = "idle"
    /\ Len(issued) < MaxAdds
    /\ \E session_id \in Ids : \E turn \in Turns :
         LET session == DictGet(sessions, session_id) IN
         IF session # 0
         THEN /\ issued' = Append(issued, [thread |-> t, session_id |-> session_id,
                                           session |-> session, turn |-> turn])
              /\ call' = [call EXCEPT ![t] = [op |-> "add", session_id |-> session_id,
                                              session |-> session, turn |-> turn]]
              /\ UNCHANGED returned
         ELSE /\ returned' = Return("add_chat_message", session_id, "False", 0)
              /\ UNCHANGED <<issued, call>>
    /\ UNCHANGED <<sessions, heap, created, done, deletes, lists>>
    /\ UNCHANGED clientVars
    /\ UNCHANGED apiVars
    /\ UNCHANGED memVars

\* add_chat_message, line 57-58: the append on the object found, then return True
AddAppend(t) ==
    /\ call[t].op = "add"
    /\ heap' = [heap EXCEPT ![call[t].session].chat_history =
                                AppendTurn(@, call[t].turn)]
    /\ done' = Append(done, [session |-> call[t].session, turn |-> call[t].turn])
    /\ call' = [call EXCEPT ![t] = Idle]
    /\ returned' = Return("add_chat_message", call[t].session_id, "True", 0)
    /\ UNCHANGED <<sessions, created, issued, deletes, lists>>
    /\ UNCHANGED clientVars
    /\ UNCHANGED apiVars
    /\ UNCHANGED memVars

\* delete, line 63 and 66: the membership test; an unknown id returns False
DeleteTest(t) ==
    /\ call[t].op = "idle"
    /\ Len(deletes) < MaxDeletes
    /\ \E session_id \in Ids :
         IF session_id \in DOMAIN sessions
         THEN /\ deletes' = Append(deletes, session_id)
              /\ call' = [call EXCEPT ![t] = [Idle EXCEPT !.op = "delete",
                                                          !.session_id = session_id]]
              /\ UNCHANGED returned
         ELSE /\ returned' = Return("delete", session_id, "False", 0)
              /\ UNCHANGED <<deletes, call>>
    /\ UNCHANGED <<sessions, heap, created, issued, done, lists>>
    /\ UNCHANGED clientVars
    /\ UNCHANGED apiVars
    /\ UNCHANGED memVars

\* delete, line 64-65: del self._sessions[session_id]; KeyError if the key
\* has gone since the test, and the call ends either way
DeleteDel(t) ==
    /\ call[t].op = "delete"
    /\ IF call[t].session_id \in DOMAIN sessions
       THEN /\ sessions' = DictDel(sessions, call[t].session_id)
            /\ returned' = Return("delete", call[t].session_id, "True", 0)
       ELSE /\ sessions' = sessions
            /\ returned' = Return("delete", call[t].session_id, "KeyError", 0)
    /\ call' = [call EXCEPT ![t] = Idle]
    /\ UNCHANGED <<heap, created, issued, done, deletes, lists>>
    /\ UNCHANGED clientVars
    /\ UNCHANGED apiVars
    /\ UNCHANGED memVars

\* get as it would be with dict.pop in place of dict.get
GetCallPops(t) ==
    /\ call[t].op = "idle"
    /\ \E session_id \in Ids :
         /\ returned' = Return("get", session_id,
                               IF DictGet(sessions, session_id) = 0 THEN "None" ELSE "Session",
                               DictGet(sessions, session_id))
         /\ sessions' = DictDel(sessions, session_id)
    /\ UNCHANGED <<heap, call, created, issued, done, deletes, lists>>
    /\ UNCHANGED clientVars
    /\ UNCHANGED apiVars
    /\ UNCHANGED memVars

\* SessionStore.get, line 51: one dict lookup
GetCall(t) ==
    /\ call[t].op = "idle"
    /\ \E session_id \in Ids :
         returned' = Return("get", session_id,
                            IF DictGet(sessions, session_id) = 0 THEN "None" ELSE "Session",
                            DictGet(sessions, session_id))
    /\ UNCHANGED <<sessions, heap, call, created, issued, done, deletes, lists>>
    /\ UNCHANGED clientVars
    /\ UNCHANGED apiVars
    /\ UNCHANGED memVars

InitStore ==
    /\ StoreEmpty
    /\ NoRequests
    /\ MemoryEmpty
    /\ url = ""
    /\ result = NoCall
    /\ pc = "idle"
    /\ exc = ""
    /\ consumed = << >>
    /\ status_code = 0
    /\ tasks = << >>
    /\ results = << >>
    /\ idx = 0
    /\ mpc = "direct"
    /\ elapsed = 0
    /\ idle = 0

NextStore ==
    \/ \E t \in Threads : Create(t)
    \/ \E t \in Threads : AddLookup(t)
    \/ \E t \in Threads : AddAppend(t)
    \/ \E t \in Threads : DeleteTest(t)
    \/ \E t \in Threads : DeleteDel(t)
    \/ \E t \in Threads : GetCall(t)

SpecStore == InitStore /\ [][NextStore]_vars

(* ------------------ SessionStore and the code that calls it ------------- *)
\* create keeps the list objects it is given and get hands out the stored
\* Session object, so the calling code holds references into the store.

\* the one caller followed here
Caller == "t1"

\* the code that called create empties a list it passed in (list.clear()):
\* topics or browsing_results
MutateArgument ==
    /\ \E o \in 1..Len(heap) :
         \/ lists' = [lists EXCEPT ![heap[o].topics] = << >>]
         \/ lists' = [lists EXCEPT ![heap[o].browsing_results] = << >>]
    /\ UNCHANGED <<sessions, heap, call, created, issued, done, deletes, returned>>
    /\ UNCHANGED clientVars
    /\ UNCHANGED apiVars
    /\ UNCHANGED memVars

\* the code that called get empties the chat_history of the Session object
\* it was handed
MutateReturned ==
    /\ returned.op = "get"
    /\ returned.session # 0
    /\ heap' = [heap EXCEPT ![returned.session].chat_history = << >>]
    /\ UNCHANGED <<sessions, call, created, issued, done, deletes, returned, lists>>
    /\ UNCHANGED clientVars
    /\ UNCHANGED apiVars
    /\ UNCHANGED memVars

NextCallers ==
    \/ Create(Caller)
    \/ GetCall(Caller)
    \/ AddLookup(Caller)
    \/ AddAppend(Caller)
    \/ DeleteTest(Caller)
    \/ DeleteDel(Caller)
    \/ MutateArgument
    \/ MutateReturned

SpecCallers == InitStore /\ [][NextCallers]_vars

(* --------------------- the FastAPI app (api/main.py) -------------------- *)
\* Every handler is an `async def`: it runs on the one event loop thread and
\* leaves it to other handlers only at an await.  The OpenAIClient methods
\* are plain functions making a blocking HTTP call, so a handler that is
\* inside one keeps the thread until the call returns; `loop` names it.

Messages == {"hi", "why"}
Replies  == {"hello"}
\* str(e) of the exception a model call raises
ModelFault == "Connection error."

\* a request as it arrives; given is the argument handed to the model
\* (chat_history for chat, browsing_results for synthesize), stages the
\* stages of the handler entered so far, session the Session object the
\* handler got from get, status the HTTP status of the response (0: none yet)
Request(kind, session_id, message) ==
    [kind |-> kind, pc |-> "pending", session_id |-> session_id,
     message |-> message, session |-> 0, given |-> << >>, stages |-> << >>,
     status |-> 0, detail |-> ""]

\* the request kinds that end with session_store.create
Creating == {"run", "synthesize"}

\* the requests of a creating kind that have not got their response yet
CreatingInFlight ==
    { r \in 1..Len(reqs) : reqs[r].kind \in Creating /\ reqs[r].status = 0 }

\* a request reaches the server; it waits until the event loop takes it.
\* (A request that ends with create arrives only while an id is left for it;
\* one /v1/run request is followed, whose locals url .. mpc hold.)
Arrive(kinds) ==
    /\ Len(reqs) < MaxRequests
    /\ \E kind \in kinds :
         \/ /\ kind \in {"chat"}
            /\ \E session_id \in Ids : \E message \in Messages :
                 reqs' = Append(reqs, Request(kind, session_id, message))
         \/ /\ kind \in {"delete"}
            /\ \E session_id \in Ids :
                 reqs' = Append(reqs, Request(kind, session_id, ""))
         \/ /\ kind \in {"health"}
            /\ reqs' = Append(reqs, Request(kind, "", ""))
         \/ /\ kind \in Creating
            /\ Len(created) + Cardinality(CreatingInFlight) < MaxCreates
            /\ Len(created) + Cardinality(CreatingInFlight) < Cardinality(Ids)
            /\ kind = "run" => \A q \in 1..Len(reqs) : reqs[q].kind # "run"
            /\ reqs' = Append(reqs, Request(kind, "", ""))
    /\ UNCHANGED <<loop, served>>
    /\ UNCHANGED storeVars
    /\ UNCHANGED clientVars
    /\ UNCHANGED memVars

\* the handler of request r ends with an HTTP response; it leaves the thread
Respond(r, status, detail) ==
    /\ reqs' = [reqs EXCEPT ![r].pc = "done", ![r].status = status, ![r].detail = detail]
    /\ served' = Append(served, r)
    /\ loop' = 0

\* the event loop can run a step of the handler of request r
CanRun(r) == loop = 0 \/ loop = r

\* the value of loop while the handler of r is inside a blocking call, had the
\* call been awaited instead
BlockNever(r) == 0
\* the value of loop while the handler of r is inside a blocking call
Block(r) == r

\* the not-found outcome of chat as it would be with the raise inside the
\* try block: `except Exception` turns it into the server fault
ChatNotFoundInsideTry ==
    [status |-> 500,
     detail |-> "Chat failed: 404: Session not found. Please run /v1/run first to create a session."]
\* the not-found outcome of chat, lines 190-194
ChatNotFound ==
    [status |-> 404,
     detail |-> "Session not found. Please run /v1/run first to create a session."]

\* GET /health
Health(r) ==
    /\ reqs[r].kind = "health" /\ reqs[r].pc = "pending"
    /\ CanRun(r)
    /\ Respond(r, 200, "ok")
    /\ UNCHANGED storeVars
    /\ UNCHANGED clientVars
    /\ UNCHANGED memVars

\* POST /v1/chat, lines 189-205: the lookup, then the handler enters
\* openai_client.chat with the stored chat_history
ChatBegin(r) ==
    /\ reqs[r].kind = "chat" /\ reqs[r].pc = "pending"
    /\ CanRun(r)
    /\ LET session == DictGet(sessions, reqs[r].session_id) IN
       /\ returned' = Return("get", reqs[r].session_id,
                             IF session = 0 THEN "None" ELSE "Session", session)
       /\ IF session = 0
          THEN Respond(r, ChatNotFound.status, ChatNotFound.detail)
          ELSE /\ reqs' = [reqs EXCEPT ![r].pc = "chat",
                                       ![r].session = session,
                                       ![r].given = heap[session].chat_history,
                                       ![r].stages = Append(@, "chat")]
               /\ loop' = Block(r)
               /\ UNCHANGED served
    /\ UNCHANGED <<sessions, heap, call, created, issued, done, deletes, lists>>
    /\ UNCHANGED clientVars
    /\ UNCHANGED memVars

\* the failure of the model call as it would be with the user turn stored
\* before the call
ChatFailedKeepsUserTurn(r) ==
    /\ Respond(r, 500, "Chat failed: " \o ModelFault)
    /\ heap' = [heap EXCEPT ![reqs[r].session].chat_history =
                   AppendTurn(@, [role |-> "user", content |-> reqs[r].message])]
    /\ UNCHANGED <<issued, done, returned>>
\* lines 216-217: the model call raised
ChatFailed(r) ==
    /\ Respond(r, 500, "Chat failed: " \o ModelFault)
    /\ UNCHANGED <<heap, issued, done, returned>>

\* POST /v1/chat, lines 198-217: the model call returns a text, which the two
\* add_chat_message calls store, or raises
ChatEnd(r) ==
    /\ reqs[r].kind = "chat" /\ reqs[r].pc = "chat"
    /\ CanRun(r)
    /\ \/ \E reply \in Replies :
            LET session   == DictGet(sessions, reqs[r].session_id)
                user      == [role |-> "user",      content |-> reqs[r].message]
                assistant == [role |-> "assistant", content |-> reply]
                entry(t)  == [thread |-> Caller, session_id |-> reqs[r].session_id,
                              session |-> session, turn |-> t]
            IN  /\ IF session # 0
                   THEN /\ heap' = [heap EXCEPT ![session].chat_history =
                                       AppendTurn(AppendTurn(@, user), assistant)]
                        /\ issued' = issued \o << entry(user), entry(assistant) >>
                        /\ done' = done \o << [session |-> session, turn |-> user],
                                              [session |-> session, turn |-> assistant] >>
                        /\ returned' = Return("add_chat_message", reqs[r].session_id, "True", 0)
                   ELSE /\ returned' = Return("add_chat_message", reqs[r].session_id, "False", 0)
                        /\ UNCHANGED <<heap, issued, done>>
                /\ Respond(r, 200, reply)
       \/ ChatFailed(r)
    /\ UNCHANGED <<sessions, call, created, deletes, lists>>
    /\ UNCHANGED clientVars
    /\ UNCHANGED memVars

\* DELETE /v1/session/{session_id}
DeleteSession(r) ==
    /\ reqs[r].kind = "delete" /\ reqs[r].pc = "pending"
    /\ CanRun(r)
    /\ IF reqs[r].session_id \in DOMAIN sessions
       THEN /\ sessions' = DictDel(sessions, reqs[r].session_id)
            /\ deletes' = Append(deletes, reqs[r].session_id)
            /\ returned' = Return("delete", reqs[r].session_id, "True", 0)
            /\ Respond(r, 200, "deleted")
       ELSE /\ returned' = Return("delete", reqs[r].session_id, "False", 0)
            /\ Respond(r, 404, "Session not found")
            /\ UNCHANGED <<sessions, deletes>>
    /\ UNCHANGED <<heap, call, created, issued, done, lists>>
    /\ UNCHANGED clientVars
    /\ UNCHANGED memVars

\* POST /v1/synthesize, line 231: the handler enters openai_client.synthesize
\* with the browsing results of the request
SynthesizeBegin(r) ==
    /\ reqs[r].kind = "synthesize" /\ reqs[r].pc = "pending"
    /\ CanRun(r)
    /\ reqs' = [reqs EXCEPT ![r].pc = "synthesize",
                            ![r].stages = Append(@, "synthesize")]
    /\ loop' = Block(r)
    /\ UNCHANGED served
    /\ UNCHANGED storeVars
    /\ UNCHANGED clientVars
    /\ UNCHANGED memVars

\* POST /v1/synthesize, lines 231-252: the model call returns the brief and
\* the session is created, or it raises
SynthesizeEnd(r) ==
    /\ reqs[r].kind = "synthesize" /\ reqs[r].pc = "synthesize"
    /\ CanRun(r)
    /\ \/ /\ CreateSession("u1", Topics, << >>)
          /\ reqs' = [reqs EXCEPT ![r].pc = "done", ![r].status = 200,
                                  ![r].session_id = created'[Len(created')],
                                  ![r].stages = Append(@, "create")]
          /\ served' = Append(served, r)
          /\ loop' = 0
       \/ /\ Respond(r, 500, "Synthesis failed: " \o ModelFault)
          /\ UNCHANGED <<sessions, heap, created, returned, lists>>
    /\ UNCHANGED <<call, issued, done, deletes>>
    /\ UNCHANGED clientVars
    /\ UNCHANGED memVars

NextChat ==
    \/ Arrive({"synthesize", "chat", "delete", "health"})
    \/ \E r \in 1..Len(reqs) : Health(r)
    \/ \E r \in 1..Len(reqs) : ChatBegin(r)
    \/ \E r \in 1..Len(reqs) : ChatEnd(r)
    \/ \E r \in 1..Len(reqs) : DeleteSession(r)
    \/ \E r \in 1..Len(reqs) : SynthesizeBegin(r)
    \/ \E r \in 1..Len(reqs) : SynthesizeEnd(r)

SpecChat == InitStore /\ [][NextChat]_vars

(* ------------------------- POST /v1/run (api/main.py) ------------------- *)
\* run_exploration: plan (blocking model call), browse (awaited
\* run_multiple, whose steps are the actions of run_multiple above),
\* synthesize (blocking model call), session_store.create.

\* the lists of browsing tasks a plan can hold
Plans == TaskLists

\* str(e) of the exception run_automation raised on the line it read last
ExcStr(line) ==
    CASE line = LineJsonArray  -> "'list' object has no attribute 'get'"
      [] line = LineNullStatus -> "'NoneType' object has no attribute 'lower'"

\* lines 107-114: the handler enters openai_client.plan
RunBegin(r) ==
    /\ reqs[r].kind = "run" /\ reqs[r].pc = "pending"
    /\ CanRun(r)
    /\ reqs' = [reqs EXCEPT ![r].pc = "plan", ![r].stages = Append(@, "plan")]
    /\ loop' = Block(r)
    /\ UNCHANGED served
    /\ UNCHANGED storeVars
    /\ UNCHANGED clientVars
    /\ UNCHANGED memVars

\* lines 109-126: plan returns a plan, tasks is built from plan.tasks and
\* run_multiple(tasks) is called and awaited; or plan raises
PlanEnd(r) ==
    /\ reqs[r].kind = "run" /\ reqs[r].pc = "plan"
    /\ CanRun(r)
    /\ \/ /\ \E plan \in Plans : tasks' = plan
          /\ results' = << >>
          /\ idx' = 0
          /\ mpc' = "loop"
          /\ url' = ""
          /\ result' = NoCall
          /\ pc' = "idle"
          /\ exc' = ""
          /\ consumed' = << >>
          /\ status_code' = 0
          /\ reqs' = [reqs EXCEPT ![r].pc = "browse", ![r].stages = Append(@, "browse")]
          /\ loop' = 0
          /\ UNCHANGED served
       \/ /\ Respond(r, 500, "Planning failed: " \o ModelFault)
          /\ UNCHANGED <<runVars, multiVars>>
    /\ UNCHANGED clockVars
    /\ UNCHANGED storeVars
    /\ UNCHANGED memVars

\* a step of the awaited run_multiple: the event loop runs it when no
\* handler holds the thread
Browsing(A) ==
    /\ \E r \in 1..Len(reqs) : reqs[r].pc = "browse"
    /\ loop = 0
    /\ A
    /\ UNCHANGED clockVars
    /\ UNCHANGED storeVars
    /\ UNCHANGED apiVars
    /\ UNCHANGED memVars

\* the list handed on after run_multiple returned, had the handler kept the
\* completed results only
BrowsingResultsCompletedOnly == SelectSeq(results, LAMBDA x : x.status = "completed")
\* line 126: browsing_results, the list run_multiple returned
BrowsingResults == results

\* lines 126-155: run_multiple returned and the handler enters
\* openai_client.synthesize with browsing_results; or run_multiple raised
BrowseEnd(r) ==
    /\ reqs[r].kind = "run" /\ reqs[r].pc = "browse"
    /\ CanRun(r)
    /\ mpc \in {"returned", "raised"}
    /\ IF mpc = "returned"
       THEN /\ reqs' = [reqs EXCEPT ![r].pc = "synthesize",
                                    ![r].given = BrowsingResults,
                                    ![r].stages = Append(@, "synthesize")]
            /\ loop' = Block(r)
            /\ UNCHANGED served
       ELSE Respond(r, 500, "Browsing failed: " \o ExcStr(consumed[Len(consumed)]))
    /\ UNCHANGED storeVars
    /\ UNCHANGED clientVars
    /\ UNCHANGED memVars

\* the end of the synthesize stage as it would be with the session created
\* before the model call is known to have succeeded
RunSynthesizeFails(r) ==
    /\ CreateSession("u1", Topics, reqs[r].given)
    /\ Respond(r, 500, "Synthesis failed: " \o ModelFault)
\* lines 159-160: synthesize raised
RunSynthesizeFailed(r) ==
    /\ Respond(r, 500, "Synthesis failed: " \o ModelFault)
    /\ UNCHANGED <<sessions, heap, created, returned, lists>>

\* lines 151-176: synthesize returns the brief and the session is created
\* with browsing_results; or synthesize raises
RunSynthesizeEnd(r) ==
    /\ reqs[r].kind = "run" /\ reqs[r].pc = "synthesize"
    /\ CanRun(r)
    /\ \/ /\ CreateSession("u1", Topics, reqs[r].given)
          /\ reqs' = [reqs EXCEPT ![r].pc = "done", ![r].status = 200,
                                  ![r].session_id = created'[Len(created')],
                                  ![r].stages = Append(@, "create")]
          /\ served' = Append(served, r)
          /\ loop' = 0
       \/ RunSynthesizeFailed(r)
    /\ UNCHANGED <<call, issued, done, deletes>>
    /\ UNCHANGED clientVars
    /\ UNCHANGED memVars

NextRun ==
    \/ Arrive({"run"})
    \/ \E r \in 1..Len(reqs) : RunBegin(r)
    \/ \E r \in 1..Len(reqs) : PlanEnd(r)
    \/ Browsing(RunMultipleCall)
    \/ Browsing(ConnectFault)
    \/ Browsing(Unauthorized)
    \/ Browsing(HttpError)
    \/ Browsing(StreamOpened)
    \/ Browsing(NextLine(MultiLines, MaxMultiLines))
    \/ Browsing(StreamEnd)
    \/ Browsing(ReadFault)
    \/ Browsing(RunMultipleAppend)
    \/ Browsing(RunMultiplePropagate)
    \/ Browsing(RunMultipleReturn)
    \/ \E r \in 1..Len(reqs) : BrowseEnd(r)
    \/ \E r \in 1..Len(reqs) : RunSynthesizeEnd(r)

SpecRun == InitStore /\ [][NextRun]_vars

(* ------------------ MemoryStore (storage/memory.py) --------------------- *)
\* Threads call upsert_preferences and get_preferences on one MemoryStore.
\* A `with self._lock` block is entered when the lock is free and left when
\* its body is done.

Users == {"u1", "u2"}
TopicTexts == {"ai, chips", "biology"}

\* self._prefs.get(user_id)
PrefsGet(d, user_id) == IF user_id \in DOMAIN d THEN d[user_id] ELSE NoPreferences

\* the frame of a MemoryStore step
MemoryFrame ==
    /\ UNCHANGED clientVars
    /\ UNCHANGED storeVars
    /\ UNCHANGED apiVars

\* upsert_preferences, lines 20-26: the record is built, outside the lock
UpsertBuild(t) ==
    /\ mcall[t].op = "idle"
    /\ now < MaxUpserts
    /\ \E user_id \in Users : \E topics \in TopicTexts :
         mcall' = [mcall EXCEPT ![t] =
                      [op |-> "upsert", pc |-> "acquire", user_id |-> user_id,
                       rec |-> PreferencesOut(user_id, topics, "high_level", 5, now + 1)]]
    /\ now' = now + 1
    /\ UNCHANGED <<prefs, lock, writes, got>>
    /\ MemoryFrame

\* line 27: `with self._lock` is entered
UpsertAcquire(t) ==
    /\ mcall[t].op = "upsert" /\ mcall[t].pc = "acquire"
    /\ lock = ""
    /\ lock' = t
    /\ mcall' = [mcall EXCEPT ![t].pc = "locked"]
    /\ UNCHANGED <<prefs, writes, got, now>>
    /\ MemoryFrame

\* UpsertStore as it would be with `self._prefs.setdefault(user_id, rec)`
UpsertStoreKeepsFirst(t) ==
    /\ mcall[t].op = "upsert" /\ mcall[t].pc = "locked"
    /\ prefs' = IF mcall[t].user_id \in DOMAIN prefs THEN prefs
                ELSE DictStore(prefs, mcall[t].user_id, mcall[t].rec)
    /\ writes' = Append(writes, mcall[t].rec)
    /\ mcall' = [mcall EXCEPT ![t].pc = "release"]
    /\ UNCHANGED <<lock, got, now>>
    /\ MemoryFrame

\* line 28: self._prefs[user_id] = rec
UpsertStore(t) ==
    /\ mcall[t].op = "upsert" /\ mcall[t].pc = "locked"
    /\ prefs' = DictStore(prefs, mcall[t].user_id, mcall[t].rec)
    /\ writes' = Append(writes, mcall[t].rec)
    /\ mcall' = [mcall EXCEPT ![t].pc = "release"]
    /\ UNCHANGED <<lock, got, now>>
    /\ MemoryFrame

\* lines 28-29: the with block is left and rec is returned
UpsertRelease(t) ==
    /\ mcall[t].op = "upsert" /\ mcall[t].pc = "release"
    /\ lock' = ""
    /\ mcall' = [mcall EXCEPT ![t] = MemoryIdle]
    /\ UNCHANGED <<prefs, writes, got, now>>
    /\ MemoryFrame

\* get_preferences, line 32: the call is made and `with self._lock` is entered
GetAcquire(t) ==
    /\ mcall[t].op = "idle"
    /\ lock = ""
    /\ lock' = t
    /\ \E user_id \in Users :
         mcall' = [mcall EXCEPT ![t] =
                      [op |-> "get", pc |-> "locked", user_id |-> user_id,
                       rec |-> NoPreferences]]
    /\ UNCHANGED <<prefs, writes, got, now>>
    /\ MemoryFrame

\* line 33: return self._prefs.get(user_id); the with block is left
GetReturn(t) ==
    /\ mcall[t].op = "get" /\ mcall[t].pc = "locked"
    /\ got' = [thread |-> t, user_id |-> mcall[t].user_id,
               value |-> PrefsGet(prefs, mcall[t].user_id)]
    /\ lock' = ""
    /\ mcall' = [mcall EXCEPT ![t] = MemoryIdle]
    /\ UNCHANGED <<prefs, writes, now>>
    /\ MemoryFrame

NextMemory ==
    \/ \E t \in Threads : UpsertBuild(t)
    \/ \E t \in Threads : UpsertAcquire(t)
    \/ \E t \in Threads : UpsertStore(t)
    \/ \E t \in Threads : UpsertRelease(t)
    \/ \E t \in Threads : GetAcquire(t)
    \/ \E t \in Threads : GetReturn(t)

SpecMemory == InitStore /\ [][NextMemory]_vars

(* --------------- stream_mino_automation (streamlit_app.py) -------------- *)
\* The reducer of the UI: an async generator that folds the same stream into
\* a result dict of its own and yields it after every event.  The dict is
\* followed here; `events`, a separate local list, is not part of it.

\* bool(x) of a Python value
Truthy(x) ==
    CASE x.jt = "NoneType" -> FALSE
      [] x.jt = "<no key>" -> FALSE
      [] x.jt = "str"      -> x.v # ""
      [] x.jt = "list"     -> x.v # "[]"
      [] x.jt = "dict"     -> DOMAIN x.v # {}
      [] OTHER             -> TRUE

\* a or b
Or(a, b) == IF Truthy(a) THEN a ELSE b

\* lines 207-212: the dict stream_mino_automation starts from
UiInitialResult(u) ==
    [ website     |-> u,
      content     |-> "",
      status      |-> "pending",
      browser_url |-> PyNone,
      error       |-> KeyMissing,
      run_id      |-> KeyMissing ]

\* event.get("browserUrl") or event.get("url") or event.get("viewUrl")
\* or event.get("streamingUrl")
BrowserUrl(event) ==
    Or(Get(event, "browserUrl", PyNone),
       Or(Get(event, "url", PyNone),
          Or(Get(event, "viewUrl", PyNone), Get(event, "streamingUrl", PyNone))))

\* UiOnComplete as it would be if the status were stored as the event gives it
UiOnCompleteKeepsCase(r, event) ==
    LET status == Get(event, "status", PyStr("")) IN
    IF status.jt # "str"
    THEN Raise(r, "AttributeError")
    ELSE LET r1 == [r EXCEPT !.status = status.v] IN
         IF status.v = "COMPLETED"
         THEN LET result_json == Get(event, "resultJson", PyDict(<< >>)) IN
              Continue([r1 EXCEPT !.content =
                            IF result_json.jt = "dict"
                            THEN JsonDumpsIndent2(result_json.v)
                            ELSE Str(result_json)])
         ELSE Continue([r1 EXCEPT !.error = PyStr("Automation " \o status.v)])

\* lines 256-263: the COMPLETE branch
UiOnComplete(r, event) ==
    LET status == Get(event, "status", PyStr("")) IN
    IF status.jt # "str"
    THEN Raise(r, "AttributeError")                 \* status.lower()
    ELSE LET r1 == [r EXCEPT !.status = Lower(status.v)] IN
         IF status.v = "COMPLETED"
         THEN LET result_json == Get(event, "resultJson", PyDict(<< >>)) IN
              Continue([r1 EXCEPT !.content =
                            IF result_json.jt = "dict"
                            THEN JsonDumpsIndent2(result_json.v)
                            ELSE Str(result_json)])
         ELSE Continue([r1 EXCEPT !.error = PyStr("Automation " \o status.v)])

\* lines 235-263: the body of the try block for a decoded event that is a dict
UiOnEvent(r, event) ==
    LET event_type == Get(event, "type", PyStr("")) IN
    CASE PyEqStr(event_type, "STARTED") ->
             LET r1 == [r EXCEPT !.run_id = Get(event, "runId", PyNone),
                                 !.status = "running"]
                 browser_url == BrowserUrl(event)
             IN  Continue(IF Truthy(browser_url)
                          THEN [r1 EXCEPT !.browser_url = browser_url]
                          ELSE r1)
      [] PyEqStr(event_type, "STREAMING_URL") ->
             LET streaming_url == Get(event, "streamingUrl", PyNone) IN
             Continue(IF Truthy(streaming_url)
                      THEN [r EXCEPT !.browser_url = streaming_url]
                      ELSE r)
      [] PyEqStr(event_type, "PROGRESS") ->
             LET browser_url == BrowserUrl(event) IN
             Continue(IF Truthy(browser_url) /\ ~Truthy(r.browser_url)
                      THEN [r EXCEPT !.browser_url = browser_url]
                      ELSE r)
      [] PyEqStr(event_type, "COMPLETE") -> UiOnComplete(r, event)
      [] OTHER -> Continue(r)

\* lines 225-268: one iteration of `async for line in response.aiter_lines()`
UiFoldLine(r, line) ==
    IF line = "" \/ ~StartsWith(line, "data:") THEN Continue(r)
    ELSE LET data_str == Strip(AfterMarker(line)) IN
         IF data_str = "" THEN Continue(r)
         ELSE LET event == JsonLoads(data_str) IN
              IF event.jt = "JSONDecodeError" THEN Continue(r)
              ELSE IF event.jt # "dict"
                   THEN Raise(r, "AttributeError")  \* event.get on a non-dict
                   ELSE UiOnEvent(r, event.v)

\* the loop over the lines from line i on; it ends at the first line whose
\* iteration raises, and `raised` is then the number of that line
RECURSIVE UiLoop(_, _, _)
UiLoop(r, lines, i) ==
    IF i > Len(lines) THEN [result |-> r, raised |-> 0]
    ELSE LET o == UiFoldLine(r, lines[i]) IN
         IF o.raised # "" THEN [result |-> o.result, raised |-> i]
         ELSE UiLoop(o.result, lines, i + 1)

\* lines 206-275 for a 200 response that delivers `lines` and then ends:
\* the dict as the generator leaves it (`except Exception` catches whatever
\* the loop raised)
stream_mino_automation(u, lines) ==
    LET o == UiLoop(UiInitialResult(u), lines, 1) IN
    IF o.raised = 0 THEN o.result
    ELSE [o.result EXCEPT !.status = "error",
                          !.error  = PyStr(ExcStr(lines[o.raised]))]

(* ======================= properties of run_multiple ==================== *)

\* C1: run_multiple returns one result per task, in task order: whenever it
\* returns, results has exactly Len(tasks) entries and results[i].website
\* = tasks[i].website; while it runs, results is the prefix for the tasks
\* already run; and no run that ends completed, failed, in a transport error
\* or in a timeout makes it raise.
C1_PositionalResults ==
    /\ Len(results) <= Len(tasks)
    /\ \A i \in 1..Len(results) : results[i].website = tasks[i].website
    /\ mpc = "returned" => Len(results) = Len(tasks)
    /\ mpc = "loop" => Len(results) = idx
    /\ mpc = "raised" => ~IsRequestError(exc)

C1_Witness ==
    /\ mpc = "returned"
    /\ Len(tasks) = 2
    /\ tasks[1].website # tasks[2].website
    /\ Len(results) = 2
    /\ results[1].status = "error"
    /\ results[2].status = "completed"

\* C2: a failure of one run never makes run_multiple raise, and a result
\* for every task is returned.
C2_NeverRaises ==
    /\ mpc # "raised"
    /\ mpc = "returned" => Len(results) = Len(tasks)

(* ====================== properties of run_automation =================== *)

\* C3: whatever lines a 200 response delivers, run_automation never raises.
C3_NeverRaises == pc # "raised"

\* a COMPLETE event has been folded by the run and the loop is still reading
CompleteFolded ==
    /\ pc = "stream"
    /\ \E i \in 1..Len(result.events) : PyEqStr(result.events[i].type, "COMPLETE")

\* C4: once a COMPLETE event has set status, no later event of the stream
\* changes status.
C4_TerminalStatusKept ==
    [][(CompleteFolded /\ pc' = "stream") => result'.status = result.status]_vars

\* C5: folding a COMPLETE event whose status is not the success status
\* leaves content empty and sets error to the message naming that status.
C5_FailureHasNoContent ==
    [][ /\ (pc = "stream" /\ consumed' = Append(consumed, LineFailed))
            => (result'.content = "" /\ result'.error = PyStr("Automation FAILED"))
        /\ (pc = "stream" /\ consumed' = Append(consumed, LineNoStatus))
            => (result'.content = "" /\ result'.error = PyStr("Automation "))
      ]_vars

\* the stream is STARTED / PROGRESS / HEARTBEAT events in any number and
\* order, followed by one successful COMPLETE event
SuccessShape(c) ==
    /\ Len(c) >= 1
    /\ c[Len(c)] \in {LineDoneObj, LineDoneText}
    /\ \A i \in 1..(Len(c) - 1) : c[i] \in {LineStarted, LineProgress, LineHeartbeat}

\* the content the resultJson of a successful COMPLETE line must give
ExpectedContent(line) ==
    CASE line = LineDoneObj  -> "{\n  \"k\": \"v\"\n}"
      [] line = LineDoneText -> "text"

\* C6: a stream of that shape that then ends gives status "completed", no
\* error, website = url and a content fixed by the COMPLETE event alone.
C6_SuccessResult ==
    (pc = "returned" /\ exc = "" /\ SuccessShape(consumed)) =>
        /\ result.status = "completed"
        /\ result.error = KeyMissing
        /\ result.website = url
        /\ result.content = ExpectedContent(consumed[Len(consumed)])

C6_Witness ==
    /\ pc = "returned"
    /\ exc = ""
    /\ consumed = <<LineProgress, LineStarted, LineDoneObj>>
    /\ result.status = "completed"

\* C7: a returned result has exactly one of {non-empty content, error};
\* both are absent only if the run folded no event.
C7_ContentXorError ==
    pc = "returned" =>
        LET hasContent == result.content # ""
            hasError   == result.error # KeyMissing
        IN  /\ ~(hasContent /\ hasError)
            /\ (~hasContent /\ ~hasError) => Len(result.events) = 0

\* C8: error is present exactly when status denotes failure.
C8_ErrorIffFailure ==
    pc \in {"connect", "stream", "returned"} =>
        ((result.error # KeyMissing)
            <=> (result.status \notin {"pending", "running", "completed"}))

\* C9: once content has been assigned it is not assigned again.
C9_ContentAssignedOnce ==
    [][result.content # "" => result'.content = result.content]_vars

\* the message the except clauses must give for a transport fault
ExpectedFaultMessage(cls) ==
    CASE cls = "ConnectError"        -> "Request failed: All connection attempts failed"
      [] cls = "RemoteProtocolError" ->
             "Request failed: peer closed connection without sending complete message body"
      [] cls \in {"ConnectTimeout", "ReadTimeout"} -> "Request timed out after 300 seconds"

\* C10: a transport fault is never propagated: the run returns status
\* "error" with a message describing the fault; after only STARTED the
\* content is "".
C10_TransportFaultRecovered ==
    (exc \in ConnectFaults \cup ReadFaults) =>
        /\ pc = "returned"
        /\ result.status = "error"
        /\ result.error = PyStr(ExpectedFaultMessage(exc))
        /\ consumed = <<LineStarted>> => result.content = ""

C10_Witness ==
    /\ pc = "returned"
    /\ exc = "RemoteProtocolError"
    /\ consumed = <<LineStarted>>
    /\ result.status = "error"
    /\ result.content = ""
    /\ result.run_id = PyStr("r1")

\* C11: a 401 response gives status "error" with the fixed message, no
\* line read, no event recorded, content empty, run_id unset, and the run
\* is over (no second request).
C11_UnauthorizedResult ==
    status_code = 401 =>
        /\ pc = "returned"
        /\ exc = ""
        /\ consumed = << >>
        /\ result = [ website |-> url,
                      content |-> "",
                      status  |-> "error",
                      events  |-> << >>,
                      error   |-> PyStr("Unauthorized: Invalid or missing API key"),
                      run_id  |-> KeyMissing ]

C11_Witness ==
    /\ status_code = 401
    /\ pc = "returned"
    /\ result.status = "error"

\* the run ended in the error state before any line was read
EndedBeforeStream ==
    /\ pc = "returned"
    /\ consumed = << >>
    /\ result.status = "error"

\* C12 as claimed: a run that got a response and met no transport fault ends
\* in the error state before any line exactly when the status code is not 2xx.
C12_Non2xxEndsRun ==
    (status_code # 0 /\ exc = "") =>
        (EndedBeforeStream <=> status_code \notin 200..299)

\* the error text for a rejected response with the given code
HttpErrorTexts(code) ==
    IF code = 401
    THEN {"Unauthorized: Invalid or missing API key"}
    ELSE {"HTTP " \o ToString(code) \o ": b''",
          "HTTP " \o ToString(code) \o ": b'Bad Gateway'"}

\* C12 as amended: a run that got a response and met no transport fault ends
\* in the error state before any line exactly when the status code is not
\* 200 (a 2xx code other than 200 included); the error then carries the code
\* and the body (the fixed message for 401); only a 200 response has its
\* stream read.
C12_Non200EndsRun ==
    /\ (status_code # 0 /\ exc = "") => (EndedBeforeStream <=> status_code # 200)
    /\ (status_code \notin {0, 200} /\ exc = "") =>
           /\ result.error.jt = "str"
           /\ result.error.v \in HttpErrorTexts(status_code)
           /\ result.events = << >>
    /\ status_code \notin {0, 200} => EndedBeforeStream
    /\ (pc = "stream" \/ consumed # << >>) => status_code = 200

C12_Witness ==
    /\ status_code = 204
    /\ exc = ""
    /\ EndedBeforeStream
    /\ result.error = PyStr("HTTP 204: b''")

\* C13: no run is still waiting once 300 seconds have passed since it
\* started.
C13_BoundedByTimeout ==
    pc \in {"connect", "stream"} => elapsed <= Timeout

\* C14: after a COMPLETE event has been folded, no later line changes the
\* result.
C14_FoldStopsAtComplete ==
    [][(CompleteFolded /\ pc' = "stream") => result' = result]_vars

\* C15: a returned result is pending or terminal, never running.
C15_ReturnedNotRunning ==
    pc = "returned" =>
        result.status \in {"pending", "completed", "failed", "cancelled", "error"}

\* the lines that carry no event
SkippedLines == {LineBlank, LineComment, LineDataEmpty, LineNotJson}

\* C16: a blank line, a line without the data: marker, a data line with an
\* empty body and a data line whose body is not JSON never raise and leave
\* the whole result unchanged; the loop goes on.
C16_SkippedLinesAreNeutral ==
    [][\A line \in SkippedLines :
          (pc = "stream" /\ consumed' = Append(consumed, line)) =>
              (result' = result /\ pc' = "stream" /\ exc' = "")]_vars

C16_Witness ==
    /\ pc = "stream"
    /\ Len(consumed) = 3
    /\ consumed[1] \in SkippedLines
    /\ consumed[2] \in SkippedLines
    /\ consumed[1] # consumed[2]
    /\ consumed[3] = LineStarted
    /\ result.status = "running"

\* the events whose type is neither STARTED nor COMPLETE, with the type the
\* events log must record for each
InformationalLines == {LineProgress, LineHeartbeat, LineStreamingUrl, LineNoType}
LoggedType(line) ==
    CASE line = LineProgress     -> "PROGRESS"
      [] line = LineHeartbeat    -> "HEARTBEAT"
      [] line = LineStreamingUrl -> "STREAMING_URL"
      [] line = LineNoType       -> ""

\* C17: an event that is neither STARTED nor COMPLETE leaves status,
\* content, error, run_id and website unchanged in every state and adds
\* exactly one entry to the events log.
C17_InformationalEventsOnlyLogged ==
    [][\A line \in InformationalLines :
          (pc = "stream" /\ consumed' = Append(consumed, line)) =>
              /\ pc' = "stream"
              /\ result'.status  = result.status
              /\ result'.content = result.content
              /\ result'.error   = result.error
              /\ result'.run_id  = result.run_id
              /\ result'.website = result.website
              /\ Len(result'.events) = Len(result.events) + 1
              /\ SubSeq(result'.events, 1, Len(result.events)) = result.events
              /\ PyEqStr(result'.events[Len(result'.events)].type, LoggedType(line))]_vars

C17_Witness ==
    /\ pc = "stream"
    /\ consumed = <<LineFailed, LineStreamingUrl, LineNoType>>
    /\ result.status = "failed"
    /\ Len(result.events) = 3

(* ======================= properties of SessionStore ==================== *)

\* the turns of the entries of a call log that concern Session object o
TurnsOn(log, o) ==
    LET mine == SelectSeq(log, LAMBDA e : e.session = o)
    IN  [i \in 1..Len(mine) |-> mine[i].turn]

\* the threads with an add_chat_message between its lookup and its append
\* on Session object o
AddsInFlight(o) == { t \in Threads : call[t].op = "add" /\ call[t].session = o }

\* C18: whatever the interleaving of the add_chat_message calls, the
\* chat_history of every Session object holds exactly the turns of the
\* calls on it that returned True, each one whole, one entry per call.
C18_NoLostAppend ==
    \A o \in 1..Len(heap) :
        /\ heap[o].chat_history = TurnsOn(done, o)
        /\ Len(heap[o].chat_history) = Cardinality({ i \in 1..Len(done) : done[i].session = o })
        /\ \A i \in 1..Len(heap[o].chat_history) : heap[o].chat_history[i] \in Turns

\* two calls on one session overlapped: the thread that looked the session
\* up first is still before its append, the other call has returned True
C18_Witness ==
    /\ Len(issued) = 2
    /\ issued[1].session = issued[2].session
    /\ issued[1].thread # issued[2].thread
    /\ AddsInFlight(issued[1].session) = {issued[1].thread}
    /\ Len(done) = 1
    /\ issued[1].session_id \in DOMAIN sessions
    /\ get(issued[1].session_id).chat_history = << issued[2].turn >>

\* C19: when all the add_chat_message calls on a live session came from one
\* thread, one after the other, and the last has returned, get(id) has a
\* chat_history of as many turns as there were calls, in call order,
\* whatever the other threads did on other session ids meanwhile.
C19_SequentialAppendsInCallOrder ==
    \A id \in DOMAIN sessions :
        LET o == sessions[id]
            callers == { issued[i].thread : i \in { j \in 1..Len(issued) : issued[j].session = o } }
        IN  (Cardinality(callers) <= 1 /\ AddsInFlight(o) = {}) =>
                /\ get(id).chat_history = TurnsOn(issued, o)
                /\ Len(get(id).chat_history) =
                       Cardinality({ i \in 1..Len(issued) : issued[i].session = o })

\* create, add(id, "user", "hi"), add(id, "assistant", "hello") by one thread,
\* while another session was created and deleted by the other thread
C19_Witness ==
    /\ Len(issued) = 2
    /\ issued[1].thread = issued[2].thread
    /\ issued[1].session = issued[2].session
    /\ issued[1].session_id \in DOMAIN sessions
    /\ get(issued[1].session_id).chat_history =
           << [role |-> "user", content |-> "hi"],
              [role |-> "assistant", content |-> "hello"] >>
    /\ Len(created) = 2
    /\ Len(deletes) = 1
    /\ deletes[1] # issued[1].session_id
    /\ heap[sessions[issued[1].session_id]].user_id = UserOf(issued[1].thread)
    /\ \A t \in Threads : call[t].op = "idle"

Gone == Range(created) \ DOMAIN sessions

\* how many entries of a log equal x
Count(log, x) == Cardinality({ i \in 1..Len(log) : log[i] = x })

\* a call of the given method ends in this step
Ends(op) == returned' # returned /\ returned'.op = op

\* C21: a delete on a live session (the only delete of that id) returns True
\* and removes that key and nothing else; from then on the id is never a key
\* again, so every later get reports None and no later add_chat_message finds
\* it; a delete on an unknown id returns False and changes nothing.
C21_DeleteRemovesExactlyThatSession ==
    [][/\ \A t \in Threads :
            (call[t].op = "delete" /\ call'[t].op = "idle"
                 /\ Count(deletes, call[t].session_id) = 1) =>
                /\ call[t].session_id \in DOMAIN sessions
                /\ returned' = Return("delete", call[t].session_id, "True", 0)
                /\ DOMAIN sessions' = DOMAIN sessions \ {call[t].session_id}
                /\ \A id \in DOMAIN sessions' : sessions'[id] = sessions[id]
                /\ heap' = heap /\ lists' = lists
       /\ \A id \in Gone :
            /\ id \notin DOMAIN sessions'
            /\ (Ends("get") /\ returned'.session_id = id) =>
                   (returned'.value = "None" /\ returned'.session = 0)
            /\ (Ends("add_chat_message") /\ returned'.session_id = id
                    /\ \A t \in Threads : call[t].op # "add") =>
                   returned'.value = "False"
            /\ issued' # issued => issued'[Len(issued')].session_id # id
       /\ (Ends("delete") /\ returned'.value = "False") =>
            /\ returned'.session_id \notin DOMAIN sessions
            /\ UNCHANGED <<sessions, heap, lists, call, created, issued, done, deletes>>
      ]_vars

\* a session with a turn stays as it is after the other one was deleted, and
\* a get on the deleted id reports None
C21_Witness ==
    /\ Len(created) = 2
    /\ deletes = << created[1] >>
    /\ Gone = { created[1] }
    /\ returned = Return("get", created[1], "None", 0)
    /\ created[2] \in DOMAIN sessions
    /\ Len(get(created[2]).chat_history) = 1
    /\ \A t \in Threads : call[t].op = "idle"

\* C22: an add_chat_message on an id that is not stored (never created, or
\* deleted) returns False and changes nothing: no session appears and no
\* Session object changes; only a call whose id is stored goes on to append.
C22_AddOnMissingSessionIsNoOp ==
    [][/\ (Ends("add_chat_message") /\ returned'.value = "False") =>
            /\ returned'.session_id \notin DOMAIN sessions
            /\ UNCHANGED <<sessions, heap, lists, call, created, issued, done, deletes>>
       /\ issued' # issued =>
            /\ issued'[Len(issued')].session_id \in DOMAIN sessions
            /\ issued'[Len(issued')].session = sessions[issued'[Len(issued')].session_id]
       /\ \A t \in Threads :
            (call[t].op = "idle" /\ call'[t].op = "add") => issued' # issued
      ]_vars

\* the call named a deleted id while another session, with a turn, is stored
C22_Witness ==
    /\ returned.op = "add_chat_message"
    /\ returned.value = "False"
    /\ returned.session_id \in Gone
    /\ \E id \in DOMAIN sessions : Len(get(id).chat_history) = 1
    /\ Len(done) = 1

\* C24: get changes nothing in the store; it hands back the Session object
\* stored under the id (so two gets with no store operation between them
\* hand back the same object in the same state), and None, not an
\* exception, for an id that is not stored.
C24_GetIsReadOnly ==
    [][Ends("get") =>
          /\ UNCHANGED <<sessions, heap, lists, call, created, issued, done, deletes>>
          /\ returned'.value \in {"Session", "None"}
          /\ returned'.value = "None" <=> returned'.session_id \notin DOMAIN sessions
          /\ returned'.session = DictGet(sessions', returned'.session_id)
          /\ \A id \in DOMAIN sessions :
                 id \in DOMAIN sessions' /\ get(id)' = get(id)
      ]_vars

\* a get of a session with two turns, after a get of an id that is not stored
C24_Witness ==
    /\ returned.op = "get"
    /\ returned.value = "Session"
    /\ returned.session = sessions[returned.session_id]
    /\ Len(heap[returned.session].chat_history) = 2
    /\ Gone # {}

\* what get(id) lets its caller read of a stored session
SessionValue(id) ==
    [ session_id       |-> get(id).session_id,
      user_id          |-> get(id).user_id,
      topics           |-> lists[get(id).topics],
      browsing_results |-> lists[get(id).browsing_results],
      chat_history     |-> get(id).chat_history ]

\* C23: a step that is no create, add_chat_message or delete leaves what get
\* returns for every stored session as it was, whatever the calling code
\* does with the objects it passed to create or received from get.
C23_OnlyStoreOperationsChangeSessions ==
    [][UNCHANGED <<sessions, call, created, issued, done, deletes>> =>
          \A id \in DOMAIN sessions : SessionValue(id)' = SessionValue(id)]_vars

(* ===================== properties of run_automation ==================== *)

\* C30: in every state of a run, status is one of pending, running,
\* completed, failed, cancelled, error.
C30_StatusInEnumeration ==
    pc \in {"connect", "stream", "returned", "raised"} =>
        result.status \in {"pending", "running", "completed", "failed", "cancelled", "error"}

(* ======================== properties of the app ======================== *)

\* request r is a chat request that got the model's reply as its response
ChatServed(r) == reqs[r].kind = "chat" /\ reqs[r].status = 200

\* the user turn and the assistant turn of a served chat request
Pair(r) == << [role |-> "user",      content |-> reqs[r].message],
              [role |-> "assistant", content |-> reqs[r].detail] >>

\* the pairs of the chat requests on Session object o among the first n
\* responses, in the order of the responses
RECURSIVE PairsServed(_, _)
PairsServed(n, o) ==
    IF n = 0 THEN << >>
    ELSE LET r == served[n] IN
         IF ChatServed(r) /\ reqs[r].session = o
         THEN PairsServed(n - 1, o) \o Pair(r)
         ELSE PairsServed(n - 1, o)

\* C25: the chat_history of a session is the concatenation, in the order
\* the chat requests on it were served, of one (user, assistant) pair per
\* request that succeeded, and the history handed to the model for a
\* request is the history of the requests served before it.
C25_ChatPairsInServedOrder ==
    /\ \A o \in 1..Len(heap) : heap[o].chat_history = PairsServed(Len(served), o)
    /\ \A r \in 1..Len(reqs) :
         reqs[r].pc = "chat" => reqs[r].given = PairsServed(Len(served), reqs[r].session)
    /\ \A n \in 1..Len(served) :
         ChatServed(served[n]) =>
             reqs[served[n]].given = PairsServed(n - 1, reqs[served[n]].session)

\* two chat requests on one session were both received before either was
\* served, and the one that arrived last was served first
C25_Witness ==
    /\ served = << 1, 3, 2 >>
    /\ ChatServed(2) /\ ChatServed(3)
    /\ reqs[2].session = reqs[3].session
    /\ reqs[2].message # reqs[3].message
    /\ reqs[2].session_id \in DOMAIN sessions
    /\ get(reqs[2].session_id).chat_history = Pair(3) \o Pair(2)
    /\ reqs[2].given = Pair(3)

\* C28: a chat or delete request naming an id that is not stored gets 404,
\* not 500, without entering a model call and without any change to the
\* store; and 404 is given for that reason only.
C28_UnknownSessionIsNotFound ==
    [][\A r \in 1..Len(reqs) :
          /\ (reqs[r].pc = "pending" /\ reqs'[r].pc # "pending"
                  /\ reqs[r].kind \in {"chat", "delete"}
                  /\ reqs[r].session_id \notin DOMAIN sessions) =>
                 /\ reqs'[r].status = 404
                 /\ reqs'[r].pc = "done"
                 /\ reqs'[r].stages = << >>
                 /\ loop' = loop
                 /\ UNCHANGED <<sessions, heap, lists, created, issued, done, deletes>>
          /\ (reqs[r].status = 0 /\ reqs'[r].status = 404) =>
                 /\ reqs[r].kind \in {"chat", "delete"}
                 /\ reqs[r].session_id \notin DOMAIN sessions
      ]_vars

\* a session was created and deleted, and the chat request that then named
\* its id got 404
C28_Witness ==
    /\ \E r \in 1..Len(reqs) :
         /\ reqs[r].kind = "chat"
         /\ reqs[r].status = 404
         /\ reqs[r].session_id \in Gone
    /\ Len(reqs) = 3

\* the handler of request r is waiting: inside a model call (plan,
\* synthesize, chat) or for a line of its automation stream (browse)
Waiting(r) == reqs[r].pc \in {"plan", "browse", "synthesize", "chat"}

\* C29: while one request waits on a model call or on a line of its
\* automation stream, any other request that has arrived can be run by the
\* event loop.
C29_WaitsDoNotBlock ==
    \A r \in 1..Len(reqs) : \A q \in 1..Len(reqs) :
        (Waiting(r) /\ q # r /\ reqs[q].pc = "pending") => CanRun(q)

\* the stages of /v1/run, in the order of the code
Stages == << "plan", "browse", "synthesize", "create" >>

\* the name the failure detail gives a stage
StageFailure(stage) ==
    CASE stage = "plan"       -> "Planning failed: "
      [] stage = "browse"     -> "Browsing failed: "
      [] stage = "synthesize" -> "Synthesis failed: "

\* the run requests that got their session
RunsServed == { r \in 1..Len(reqs) : reqs[r].kind = "run" /\ reqs[r].status = 200 }

\* C26: a /v1/run request enters its stages in the order plan, browse,
\* synthesize, create; a request that fails has entered no stage after the
\* failing one, its failure names that stage, and the step that fails leaves
\* the session store as it was; a session is created only by the step that
\* ends a request whose three stages succeeded, one per such request.
C26_StagesInOrder ==
    [][\A r \in 1..Len(reqs') :
          reqs'[r].kind = "run" =>
              LET n == Len(reqs'[r].stages) IN
              /\ reqs'[r].stages = SubSeq(Stages, 1, n)
              /\ reqs'[r].status \in {0, 200, 500}
              /\ reqs'[r].status = 200 <=> n = 4
              /\ reqs'[r].status = 500 =>
                     /\ n \in 1..3
                     /\ StartsWith(reqs'[r].detail, StageFailure(Stages[n]))
              /\ (r <= Len(reqs) /\ reqs[r].status = 0 /\ reqs'[r].status = 500) =>
                     UNCHANGED <<sessions, heap, lists, created>>
              /\ (r <= Len(reqs) /\ reqs[r].status = 0 /\ reqs'[r].status = 200) =>
                     /\ reqs[r].stages = SubSeq(Stages, 1, 3)
                     /\ Len(created') = Len(created) + 1
                     /\ reqs'[r].session_id = created'[Len(created')]
                     /\ reqs'[r].session_id \in DOMAIN sessions'
                     /\ reqs'[r].session_id \notin DOMAIN sessions
              /\ Len(created') = Cardinality(RunsServed')
      ]_vars

\* a request failed in the browse stage after run_multiple raised, and no
\* session exists
C26_Witness ==
    \E r \in 1..Len(reqs) :
        /\ reqs[r].kind = "run"
        /\ reqs[r].status = 500
        /\ reqs[r].stages = << "plan", "browse" >>
        /\ reqs[r].detail = "Browsing failed: 'list' object has no attribute 'get'"
        /\ Len(results) = 1
        /\ sessions = << >>

\* C27: when run_multiple returns, whatever the statuses of its results, the
\* request enters synthesize with the whole list, one result per task in
\* task order, and the session created for the request holds that list.
C27_AllResultsReachSynthesis ==
    [][\A r \in 1..Len(reqs) :
          /\ (reqs[r].pc = "browse" /\ reqs'[r].pc # "browse" /\ mpc = "returned") =>
                 /\ reqs'[r].pc = "synthesize"
                 /\ reqs'[r].given = results
                 /\ Len(reqs'[r].given) = Len(tasks)
                 /\ \A i \in 1..Len(tasks) : reqs'[r].given[i].website = tasks[i].website
          /\ (reqs[r].kind = "run" /\ reqs[r].status = 0 /\ reqs'[r].status = 200) =>
                 /\ reqs[r].given = results
                 /\ lists'[heap'[sessions'[reqs'[r].session_id]].browsing_results] = results
      ]_vars

\* a session was created from two results of which the first is an error
\* and the second completed
C27_Witness ==
    \E r \in 1..Len(reqs) :
        /\ reqs[r].kind = "run"
        /\ reqs[r].status = 200
        /\ Len(reqs[r].given) = 2
        /\ reqs[r].given[1].status = "error"
        /\ reqs[r].given[2].status = "completed"
        /\ lists[get(reqs[r].session_id).browsing_results] = reqs[r].given

\* C31: in every state of a run, and in the result it returns, website is
\* the url argument: no event field and no transport outcome changes it.
C31_WebsiteIsUrl ==
    pc \in {"connect", "stream", "returned", "raised"} => result.website = url

\* a run that folded an event carrying an address of its own and was then
\* ended by a transport fault returned the url it was called with
C31_Witness ==
    /\ pc = "returned"
    /\ consumed = << LineStarted, LineStreamingUrl >>
    /\ IsRequestError(exc)
    /\ result.status = "error"
    /\ result.website = url

\* the line the step has just folded
Folded(line) == pc = "stream" /\ consumed' = Append(consumed, line)

\* C32: a STARTED event received in state pending moves the run to running
\* and records its run identifier when it carries one; only STARTED events
\* change run_id; a STARTED event without a run identifier leaves a run_id
\* recorded before unchanged.
C32_RunIdSetByStartedOnly ==
    [][ /\ (Folded(LineStarted) /\ result.status = "pending") =>
               (result'.status = "running" /\ result'.run_id = PyStr("r1"))
        /\ (Folded(LineStartedNoId) /\ result.status = "pending") =>
               result'.status = "running"
        /\ (~Folded(LineStarted) /\ ~Folded(LineStartedNoId)) =>
               result'.run_id = result.run_id
        /\ (Folded(LineStartedNoId) /\ result.run_id.jt = "str") =>
               result'.run_id = result.run_id
      ]_vars

\* C33: a timeout or transport fault that ends a run after events were
\* folded changes status (to "error") and error only: website, content,
\* run_id and events keep the values they had, so the content of an earlier
\* successful COMPLETE event is returned.
C33_FaultKeepsFoldedFields ==
    [][(pc = "stream" /\ pc' = "returned" /\ IsRequestError(exc')) =>
           /\ result'.status = "error"
           /\ result'.error.jt = "str"
           /\ result'.error # result.error
           /\ result'.website = result.website
           /\ result'.content = result.content
           /\ result'.run_id = result.run_id
           /\ result'.events = result.events
      ]_vars

\* a read timeout ended a run that had folded STARTED and a successful
\* COMPLETE event
C33_Witness ==
    /\ pc = "returned"
    /\ exc = "ReadTimeout"
    /\ consumed = << LineStarted, LineDoneObj >>
    /\ result.status = "error"
    /\ result.content = ExpectedContent(LineDoneObj)
    /\ result.run_id = PyStr("r1")
    /\ Len(result.events) = 2

\* the turns of a history alternate user, assistant, starting with user
Alternates(h) ==
    \A i \in 1..Len(h) : h[i].role = IF i % 2 = 1 THEN "user" ELSE "assistant"

\* C34: a chat request whose model call fails stores nothing (no session's
\* chat_history changes, no session appears or disappears), so every
\* chat_history has even length and alternates user, assistant.
C34_FailedChatStoresNothing ==
    [][ /\ \A r \in 1..Len(reqs) :
             (reqs[r].kind = "chat" /\ reqs[r].status = 0 /\ reqs'[r].status = 500) =>
                 UNCHANGED <<sessions, heap, lists>>
        /\ \A o \in 1..Len(heap') :
             /\ Len(heap'[o].chat_history) % 2 = 0
             /\ Alternates(heap'[o].chat_history)
      ]_vars

\* on the session the first request created, the second request was
\* answered and the third failed in the model call: the history holds the
\* pair of the second
C34_Witness ==
    /\ served = << 1, 2, 3 >>
    /\ reqs[1].kind = "synthesize" /\ reqs[1].status = 200
    /\ reqs[2].kind = "chat" /\ reqs[2].status = 200
    /\ reqs[3].kind = "chat" /\ reqs[3].status = 500
    /\ reqs[2].session = 1 /\ reqs[3].session = 1
    /\ reqs[3].stages = << "chat" >>
    /\ heap[1].chat_history = Pair(2)

\* the line is not an event (it is skipped) or is an event that is a JSON
\* object whose status, if it has one, is a string
WellFormed(line) ==
    LET data_str == Strip(AfterMarker(line))
        event    == JsonLoads(data_str)
    IN  (StartsWith(line, "data:") /\ data_str # "" /\ event.jt # "JSONDecodeError") =>
            /\ event.jt = "dict"
            /\ Get(event.v, "status", PyStr("")).jt = "str"

\* the fields the two reducers have in common
Common(r) ==
    [website |-> r.website, status |-> r.status, content |-> r.content,
     error |-> r.error, run_id |-> r.run_id]

\* C35: on a 200 response that delivers well-formed events and ends without
\* a fault, run_automation and stream_mino_automation, given the same url
\* and lines, end with the same website, status, content, error and run_id.
C35_ReducersAgree ==
    (/\ pc = "returned"
     /\ status_code = 200
     /\ exc = ""
     /\ \A i \in 1..Len(consumed) : WellFormed(consumed[i])) =>
        Common(stream_mino_automation(url, consumed)) = Common(result)

\* both reducers folded STARTED, an event with a streaming address and a
\* failed COMPLETE event
C35_Witness ==
    /\ pc = "returned"
    /\ status_code = 200
    /\ exc = ""
    /\ consumed = << LineStarted, LineStreamingUrl, LineFailed >>
    /\ result.status = "failed"
    /\ stream_mino_automation(url, consumed).status = "failed"
    /\ stream_mino_automation(url, consumed).browser_url = PyStr("https://live.test/1")
    /\ stream_mino_automation(url, consumed).run_id = PyStr("r1")

(* ====================== properties of MemoryStore ====================== *)

\* the last of the assigned records w that is for user_id (NoPreferences if
\* there is none)
RECURSIVE LastWritten(_, _)
LastWritten(w, user_id) ==
    IF Len(w) = 0 THEN NoPreferences
    ELSE IF w[Len(w)].user_id = user_id THEN w[Len(w)]
    ELSE LastWritten(SubSeq(w, 1, Len(w) - 1), user_id)

\* C36: get_preferences(user) returns nothing while no upsert for the user
\* has taken the lock, and otherwise the whole record of the last upsert
\* for the user that took the lock; an upsert for one user leaves the
\* record of every other user as it was.
C36_GetSeesLastLockedUpsert ==
    [][ /\ \A t \in Threads :
             (mcall[t].op = "get" /\ mcall'[t].op = "idle") =>
                 /\ got'.thread = t
                 /\ got'.user_id = mcall[t].user_id
                 /\ got'.value = LastWritten(writes, mcall[t].user_id)
        /\ \A u \in Users :
             PrefsGet(prefs', u) # PrefsGet(prefs, u) =>
                 \E t \in Threads :
                     /\ mcall[t].op = "upsert" /\ mcall[t].pc = "locked"
                     /\ mcall[t].user_id = u
                     /\ PrefsGet(prefs', u) = mcall[t].rec
        /\ \A u \in Users : PrefsGet(prefs', u) = LastWritten(writes', u)
      ]_vars

\* two upserts for one user took the lock in the order opposite to the one
\* their records were built in, a third upsert wrote another user's record,
\* and a get for the first user returned the record stored last
C36_Witness ==
    /\ Len(writes) = 3
    /\ writes[1].user_id = writes[2].user_id
    /\ writes[1].updated_at > writes[2].updated_at
    /\ writes[1].topics # writes[2].topics
    /\ writes[3].user_id # writes[1].user_id
    /\ got.user_id = writes[1].user_id
    /\ got.value = writes[2]

====
